---- MODULE Spec2Model ----
(***************************************************************************)
(* A model of knucklebones (src/src/main.rs): the enumeration of hands,    *)
(* of non-overlapping hand pairs, the interning tables of HandPairs, the   *)
(* canonical State of three columns and the counting loop state_counts.    *)
(*                                                                         *)
(* Option<Die> is a sequence of length at most one: None is << >> and      *)
(* Some(d) is << d >>.  A HandExplicit is the tuple of its three options.   *)
(* A Vec is a sequence, a HashMap is a function on its keys.  u8, u16 and  *)
(* u64 values keep their width: an operation that leaves the range wraps   *)
(* and raises the overflow flag of the run (a debug build panics there, a  *)
(* release build wraps).                                                   *)
(***************************************************************************)
EXTENDS Integers, Sequences, FiniteSets, TLC

VARIABLES
    pc,                  \* position of the running function
    hv, i1, i2, i3,      \* hands(): the vector v and the three loop positions
    hands,               \* the value returned by hands()
    pv, h1,              \* hand_pairs(): the vector v and the outer position
    hand_pairs,          \* the value returned by hand_pairs()
    ix_to_hand, hand_to_ix, ix, it, ix_overflow,   \* HandPairs::new()
    args, state, panicked,                     \* State::new_by_index, reverse
    intermediate_states, final_states,         \* state_counts(): accumulators
    ix_1, ix_2, ix_3,                          \* state_counts(): loop positions
    visited,             \* history: the index triples the loop body has run for
    acc_overflow,        \* a u64 addition left the range
    total                \* main(): state_counts.0 + state_counts.1

vars == <<pc, hv, i1, i2, i3, hands, pv, h1, hand_pairs,
          ix_to_hand, hand_to_ix, ix, it, ix_overflow, args, state, panicked,
          intermediate_states, final_states, ix_1, ix_2, ix_3, visited,
          acc_overflow, total>>

handsVars == <<hv, i1, i2, i3, hands>>
pairsVars == <<pv, h1, hand_pairs>>
internVars == <<ix_to_hand, hand_to_ix, ix, it, ix_overflow>>
stateVars == <<args, state, panicked>>
countVars == <<intermediate_states, final_states, ix_1, ix_2, ix_3, visited,
               acc_overflow, total>>

(***************************************************************************)
(* Bounds of the model.                                                    *)
(***************************************************************************)
\* longest input list given to the literal state_counts loop
MaxP == 4
\* State operations take indices among the MaxIx + 1 lowest and highest
MaxIx == 1
\* the long loops over hand_pairs advance by at most LoopStride turns a step
LoopStride == 64

(***************************************************************************)
(* Die, Option<Die>                                                        *)
(***************************************************************************)
Die == 1..6

VALUES == <<1, 2, 3, 4, 5, 6>>

None == << >>

Some(d) == <<d>>

is_some(o) == o # None

OptionDie == {None} \cup {Some(d) : d \in Die}

\* Iterator::skip(n) over a slice: the elements after the first n
Skip(s, n) == IF n >= Len(s) THEN << >> ELSE SubSeq(s, n + 1, Len(s))

(***************************************************************************)
(* u8 arithmetic of score()                                                *)
(***************************************************************************)
U8Add(a, b) == (a + b) % (2 ^ 8)

U8Mul(a, b) == (a * b) % (2 ^ 8)

(***************************************************************************)
(* HandExplicit                                                            *)
(***************************************************************************)
\* the struct is the tuple of its fields die_1, die_2, die_3
empty == <<None, None, None>>

new1(d1) == <<Some(d1), None, None>>

new2(d1, d2) == <<Some(d1), Some(d2), None>>

new(d1, d2, d3) == <<Some(d1), Some(d2), Some(d3)>>

die_1(h) == h[1]

die_2(h) == h[2]

die_3(h) == h[3]

val(die) == IF die = None THEN 0 ELSE die[1]

val_1(h) == val(die_1(h))

val_2(h) == val(die_2(h))

val_3(h) == val(die_3(h))

has_first_two(h, die) == die_1(h) = Some(die) \/ die_2(h) = Some(die)

has(h, die) == die_1(h) = Some(die) \/ die_2(h) = Some(die) \/ die_3(h) = Some(die)

is_full(h) == is_some(die_3(h))

len(h) ==
    IF is_some(die_3(h)) THEN 3
    ELSE IF is_some(die_2(h)) THEN 2
    ELSE IF is_some(die_1(h)) THEN 1
    ELSE 0

score_abc(h) == U8Add(U8Add(val_1(h), val_2(h)), val_3(h))

score_ab(h) == IF die_1(h) = die_2(h) THEN U8Mul(val_1(h), val_1(h)) ELSE 0

score_bc(h) == IF die_2(h) = die_3(h) THEN U8Mul(val_2(h), val_2(h)) ELSE 0

score_ac_nobonus(h) == 0

score_ac(h) == IF die_1(h) = die_3(h) THEN U8Mul(val_1(h), val_1(h)) ELSE 0

score(h) == U8Add(U8Add(U8Add(score_abc(h), score_ab(h)), score_bc(h)), score_ac(h))

\* some u8 operation of score() leaves 0..255 (the exact values, unwrapped)
score_wraps(h) ==
    LET a == val_1(h)
        b == val_2(h)
        c == val_3(h)
        abc == a + b + c
        ab == IF die_1(h) = die_2(h) THEN a * a ELSE 0
        bc == IF die_2(h) = die_3(h) THEN b * b ELSE 0
        ac == IF die_1(h) = die_3(h) THEN a * a ELSE 0
    IN  \/ a + b > 255 \/ abc > 255
        \/ a * a > 255 \/ b * b > 255
        \/ abc + ab > 255 \/ abc + ab + bc > 255 \/ abc + ab + bc + ac > 255

overlaps_but_six(hand_1, hand_2) ==
    \/ has(hand_1, 1) /\ has(hand_2, 1)
    \/ has(hand_1, 2) /\ has(hand_2, 2)
    \/ has(hand_1, 3) /\ has(hand_2, 3)
    \/ has(hand_1, 4) /\ has(hand_2, 4)
    \/ has(hand_1, 5) /\ has(hand_2, 5)

overlaps_skewed(hand_1, hand_2) ==
    \/ has(hand_1, 1) /\ has(hand_2, 2)
    \/ has(hand_1, 2) /\ has(hand_2, 2)
    \/ has(hand_1, 3) /\ has(hand_2, 3)
    \/ has(hand_1, 4) /\ has(hand_2, 4)
    \/ has(hand_1, 5) /\ has(hand_2, 5)
    \/ has(hand_1, 6) /\ has(hand_2, 6)

overlaps(hand_1, hand_2) ==
    \/ has(hand_1, 1) /\ has(hand_2, 1)
    \/ has(hand_1, 2) /\ has(hand_2, 2)
    \/ has(hand_1, 3) /\ has(hand_2, 3)
    \/ has(hand_1, 4) /\ has(hand_2, 4)
    \/ has(hand_1, 5) /\ has(hand_2, 5)
    \/ has(hand_1, 6) /\ has(hand_2, 6)

(***************************************************************************)
(* u64 values: four limbs of 16 bits, least significant first              *)
(***************************************************************************)
Limb == 2 ^ 16

U64Zero == <<0, 0, 0, 0>>

\* the limbs of a natural number below 2^31
U64Of(n) == <<n % Limb, n \div Limb, 0, 0>>

\* the sum's limbs and carries; carry[5] = 1 iff the sum leaves the u64 range
U64Carry(a, b) ==
    LET c1 == (a[1] + b[1]) \div Limb
        c2 == (a[2] + b[2] + c1) \div Limb
        c3 == (a[3] + b[3] + c2) \div Limb
        c4 == (a[4] + b[4] + c3) \div Limb
    IN  <<0, c1, c2, c3, c4>>

\* the sum kept in 32 bits only
U64AddAs32(a, b) ==
    LET c == U64Carry(a, b)
    IN  [k \in 1..4 |-> IF k <= 2 THEN (a[k] + b[k] + c[k]) % Limb ELSE 0]

U64Add(a, b) ==
    LET c == U64Carry(a, b)
    IN  [k \in 1..4 |-> (a[k] + b[k] + c[k]) % Limb]

U64AddOverflows(a, b) == U64Carry(a, b)[5] = 1

\* a <= b on limbs
U64Le(a, b) ==
    \/ a[4] < b[4]
    \/ a[4] = b[4] /\ a[3] < b[3]
    \/ a[4] = b[4] /\ a[3] = b[3] /\ a[2] < b[2]
    \/ a[4] = b[4] /\ a[3] = b[3] /\ a[2] = b[2] /\ a[1] <= b[1]

\* the value of a u64 below 2^31 as a number
U64Small(a) == a[1] + a[2] * Limb

(***************************************************************************)
(* Initial state: nothing has run                                          *)
(***************************************************************************)
\* HashMap::with_capacity(n): no entries
EmptyMap == << >>

InitRest ==
    /\ hv = << >> /\ i1 = 0 /\ i2 = 0 /\ i3 = 0 /\ hands = << >>
    /\ pv = << >> /\ h1 = 0 /\ hand_pairs = << >>
    /\ ix_to_hand = EmptyMap /\ hand_to_ix = EmptyMap /\ ix = 0 /\ it = 0
    /\ ix_overflow = FALSE
    /\ args = <<0, 0, 0>> /\ state = None /\ panicked = FALSE
    /\ intermediate_states = U64Zero /\ final_states = U64Zero
    /\ ix_1 = 0 /\ ix_2 = 0 /\ ix_3 = 0 /\ visited = << >>
    /\ acc_overflow = FALSE /\ total = U64Zero

Init == pc = "hands" /\ InitRest

(***************************************************************************)
(* hands()                                                                 *)
(***************************************************************************)
\* the middle loop iterates VALUES.iter().skip(i1)
HandsMiddleSkip(a) == a

HandsInnerSkipRelative(a, b) == b

\* the inner loop iterates VALUES.iter().skip(i1 + i2)
HandsInnerSkip(a, b) == a + b

\* v.push(HandExplicit::empty())
HandsPushEmpty ==
    /\ pc = "hands"
    /\ hv' = <<empty>>
    /\ i1' = 0
    /\ pc' = "hands_outer"
    /\ UNCHANGED <<i2, i3, hands, pairsVars, internVars, stateVars, countVars>>

\* the outer loop takes (i1, d1) and pushes new1(d1)
HandsPush1 ==
    /\ pc = "hands_outer"
    /\ i1 < Len(VALUES)
    /\ hv' = Append(hv, new1(VALUES[i1 + 1]))
    /\ i2' = 0
    /\ pc' = "hands_middle"
    /\ UNCHANGED <<i1, i3, hands, pairsVars, internVars, stateVars, countVars>>

\* the middle loop takes (i2, d2) and pushes new2(d1, d2)
HandsPush2 ==
    /\ pc = "hands_middle"
    /\ i2 < Len(Skip(VALUES, HandsMiddleSkip(i1)))
    /\ hv' = Append(hv, new2(VALUES[i1 + 1], Skip(VALUES, HandsMiddleSkip(i1))[i2 + 1]))
    /\ i3' = 0
    /\ pc' = "hands_inner"
    /\ UNCHANGED <<i1, i2, hands, pairsVars, internVars, stateVars, countVars>>

\* the inner loop takes d3 and pushes new(d1, d2, d3)
HandsPush3 ==
    /\ pc = "hands_inner"
    /\ i3 < Len(Skip(VALUES, HandsInnerSkip(i1, i2)))
    /\ hv' = Append(hv, new(VALUES[i1 + 1],
                            Skip(VALUES, HandsMiddleSkip(i1))[i2 + 1],
                            Skip(VALUES, HandsInnerSkip(i1, i2))[i3 + 1]))
    /\ i3' = i3 + 1
    /\ UNCHANGED <<pc, i1, i2, hands, pairsVars, internVars, stateVars, countVars>>

\* the inner iterator is exhausted: next (i2, d2)
HandsInnerEnd ==
    /\ pc = "hands_inner"
    /\ i3 >= Len(Skip(VALUES, HandsInnerSkip(i1, i2)))
    /\ i2' = i2 + 1
    /\ pc' = "hands_middle"
    /\ UNCHANGED <<hv, i1, i3, hands, pairsVars, internVars, stateVars, countVars>>

\* the middle iterator is exhausted: next (i1, d1)
HandsMiddleEnd ==
    /\ pc = "hands_middle"
    /\ i2 >= Len(Skip(VALUES, HandsMiddleSkip(i1)))
    /\ i1' = i1 + 1
    /\ pc' = "hands_outer"
    /\ UNCHANGED <<hv, i2, i3, hands, pairsVars, internVars, stateVars, countVars>>

\* the outer iterator is exhausted: return v
HandsReturn ==
    /\ pc = "hands_outer"
    /\ i1 >= Len(VALUES)
    /\ hands' = hv
    /\ hv' = << >>          \* v is moved out
    /\ pc' = "hand_pairs"
    /\ h1' = 0
    /\ pv' = << >>
    /\ UNCHANGED <<i1, i2, i3, hand_pairs, internVars, stateVars, countVars>>

NextHands ==
    \/ HandsPushEmpty
    \/ HandsPush1
    \/ HandsPush2
    \/ HandsPush3
    \/ HandsInnerEnd
    \/ HandsMiddleEnd
    \/ HandsReturn

SpecHands == Init /\ [][NextHands]_vars

(***************************************************************************)
(* hand_pairs(hands)                                                       *)
(***************************************************************************)
\* the inner loop for one hand_1: the pairs (hand_1, hand_2) it pushes, in order
HandPairsInner(hand_1, hs) ==
    LET kept == SelectSeq(hs, LAMBDA hand_2 : ~overlaps(hand_1, hand_2))
    IN  [k \in 1..Len(kept) |-> <<hand_1, kept[k]>>]

\* one turn of the outer loop
HandPairsOuter ==
    /\ pc = "hand_pairs"
    /\ h1 < Len(hands)
    /\ pv' = pv \o HandPairsInner(hands[h1 + 1], hands)
    /\ h1' = h1 + 1
    /\ UNCHANGED <<pc, handsVars, hand_pairs, internVars, stateVars, countVars>>

\* the outer iterator is exhausted: return v
HandPairsReturn ==
    /\ pc = "hand_pairs"
    /\ h1 >= Len(hands)
    /\ hand_pairs' = pv
    /\ pv' = << >>          \* v is moved out
    /\ pc' = "pairs_done"
    /\ UNCHANGED <<handsVars, h1, internVars, stateVars, countVars>>

NextPairs ==
    \/ HandPairsOuter
    \/ HandPairsReturn

(***************************************************************************)
(* HandPairs::new(), get_by_index, get_by_hand                             *)
(***************************************************************************)
\* HashMap::insert: the entry of key k is v, the others are kept
MapInsert(m, k, v) == (k :> v) @@ m

U16IncStuck(n) == n

\* ix += 1 on a u16
U16Inc(n) == (n + 1) % (2 ^ 16)

U16IncOverflows(n) == n + 1 >= 2 ^ 16

\* the two maps are created and the loop over hand_pairs begins
HandPairsNewBegin ==
    /\ pc = "pairs_done"
    /\ ix_to_hand' = EmptyMap
    /\ hand_to_ix' = EmptyMap
    /\ ix' = 0
    /\ it' = 0
    /\ pc' = "intern"
    /\ UNCHANGED <<handsVars, pairsVars, ix_overflow, stateVars, countVars>>

\* one turn of the loop: both inserts, then ix += 1
InsertTurn(r) ==
    [ix_to_hand |-> MapInsert(r.ix_to_hand, r.ix, hand_pairs[r.it + 1]),
     hand_to_ix |-> MapInsert(r.hand_to_ix, hand_pairs[r.it + 1], r.ix),
     ix |-> U16Inc(r.ix),
     ix_overflow |-> (r.ix_overflow \/ U16IncOverflows(r.ix)),
     it |-> r.it + 1]

\* at most n turns of the loop, one after the other
RECURSIVE InsertTurns(_, _)
InsertTurns(r, n) ==
    IF n = 0 \/ r.it >= Len(hand_pairs) THEN r ELSE InsertTurns(InsertTurn(r), n - 1)

\* the next turns of the loop
HandPairsNewInsert ==
    /\ pc = "intern"
    /\ it < Len(hand_pairs)
    /\ \E r \in {InsertTurns([ix_to_hand |-> ix_to_hand, hand_to_ix |-> hand_to_ix,
                                ix |-> ix, ix_overflow |-> ix_overflow, it |-> it],
                               LoopStride)} :
           /\ ix_to_hand' = r.ix_to_hand
           /\ hand_to_ix' = r.hand_to_ix
           /\ ix' = r.ix
           /\ ix_overflow' = r.ix_overflow
           /\ it' = r.it
    /\ UNCHANGED <<pc, handsVars, pairsVars, stateVars, countVars>>

\* the iterator is exhausted: the HandPairs value is returned
HandPairsNewReturn ==
    /\ pc = "intern"
    /\ it >= Len(hand_pairs)
    /\ pc' = "interned"
    /\ UNCHANGED <<handsVars, pairsVars, internVars, stateVars, countVars>>

\* ix_to_hand.get(&ix) is None: unwrap panics
get_by_index_fails(i) == i \notin DOMAIN ix_to_hand

get_by_index(i) == ix_to_hand[i]

\* hand_to_ix.get(hand_pair) is None: unwrap panics
get_by_hand_fails(hand_pair) == hand_pair \notin DOMAIN hand_to_ix

get_by_hand(hand_pair) == hand_to_ix[hand_pair]

NextIntern ==
    \/ HandPairsNewBegin
    \/ HandPairsNewInsert
    \/ HandPairsNewReturn

(***************************************************************************)
(* State                                                                   *)
(***************************************************************************)
\* insertion of x into the sorted sequence s
RECURSIVE InsertSorted(_, _)
InsertSorted(s, x) ==
    IF s = << >> THEN <<x>>
    ELSE IF x < s[1] THEN <<x>> \o s
    ELSE <<s[1]>> \o InsertSorted(Tail(s), x)

sort_unstable_noop(x) == x

\* slice::sort_unstable on a short array: insertion sort
sort_unstable(x) ==
    LET RECURSIVE Build(_, _)
        Build(done, k) ==
            IF k > Len(x) THEN done ELSE Build(InsertSorted(done, x[k]), k + 1)
    IN  Build(<< >>, 1)

new_by_index(column_a, column_b, column_c) ==
    LET x == sort_unstable(<<column_a, column_b, column_c>>)
    IN  [column_1 |-> x[1], column_2 |-> x[2], column_3 |-> x[3]]

\* State::new: the three get_by_hand lookups, then new_by_index
State_new_fails(column_a, column_b, column_c) ==
    get_by_hand_fails(column_a) \/ get_by_hand_fails(column_b) \/ get_by_hand_fails(column_c)

State_new(column_a, column_b, column_c) ==
    new_by_index(get_by_hand(column_a), get_by_hand(column_b), get_by_hand(column_c))

\* State::hands: the three get_by_index lookups
State_hands_fails(s) ==
    get_by_index_fails(s.column_1) \/ get_by_index_fails(s.column_2)
        \/ get_by_index_fails(s.column_3)

State_hands(s) ==
    <<get_by_index(s.column_1), get_by_index(s.column_2), get_by_index(s.column_3)>>

\* (c.1, c.0)
Swapped(c) == <<c[2], c[1]>>

reverse_fails(s) ==
    \/ State_hands_fails(s)
    \/ LET c == State_hands(s)
       IN  State_new_fails(Swapped(c[1]), Swapped(c[2]), Swapped(c[3]))

reverse(s) ==
    LET c == State_hands(s)
    IN  State_new(Swapped(c[1]), Swapped(c[2]), Swapped(c[3]))

\* the indices State operations are called with: the lowest and the highest
IxInputs ==
    {i \in 0..(Len(hand_pairs) - 1) : i <= MaxIx \/ i >= Len(hand_pairs) - 1 - MaxIx}

\* State::new_by_index(a, b, c)
StateNewByIndex ==
    /\ pc = "interned"
    /\ ~panicked
    /\ state = None        \* the State under study is built once, then reversed
    /\ \E a \in IxInputs, b \in IxInputs, c \in IxInputs :
          /\ args' = <<a, b, c>>
          /\ state' = Some(new_by_index(a, b, c))
    /\ UNCHANGED <<pc, handsVars, pairsVars, internVars, panicked, countVars>>

\* state.reverse(&hand_pairs)
StateReverse ==
    /\ pc = "interned"
    /\ ~panicked
    /\ is_some(state)
    /\ IF reverse_fails(state[1])
          THEN panicked' = TRUE /\ state' = state
          ELSE panicked' = FALSE /\ state' = Some(reverse(state[1]))
    /\ UNCHANGED <<pc, handsVars, pairsVars, internVars, args, countVars>>

NextState ==
    \/ StateNewByIndex
    \/ StateReverse

SpecIntern == Init /\ [][NextHands \/ NextPairs \/ NextIntern \/ NextState]_vars

(***************************************************************************)
(* state_counts(hand_pairs), the loop as written                           *)
(***************************************************************************)
\* the middle loop iterates hand_pairs.iter().skip(ix_1)
MiddleSkip(a) == a

InnerSkipRelative(a, b) == b

\* the inner loop iterates hand_pairs.iter().skip(ix_1 + ix_2)
InnerSkip(a, b) == a + b

p1_full(column_1, column_2, column_3) ==
    is_full(column_1[1]) /\ is_full(column_2[1]) /\ is_full(column_3[1])

p2_full(column_1, column_2, column_3) ==
    is_full(column_1[2]) /\ is_full(column_2[2]) /\ is_full(column_3[2])

ClassifyNoSkip(p1, p2) ==
    IF (p1 /\ ~p2) \/ (~p1 /\ p2) THEN "final" ELSE "intermediate"

\* the body's two tests: continue, final_states += 1 or intermediate_states += 1
Classify(p1, p2) ==
    IF p1 /\ p2 THEN "continue"
    ELSE IF (p1 /\ ~p2) \/ (~p1 /\ p2) THEN "final"
    ELSE "intermediate"

\* the columns the loops hold at positions (ix_1, ix_2, ix_3)
Column1 == hand_pairs[ix_1 + 1]
Column2 == Skip(hand_pairs, MiddleSkip(ix_1))[ix_2 + 1]
Column3 == Skip(hand_pairs, InnerSkip(ix_1, ix_2))[ix_3 + 1]

\* the positions in hand_pairs of the three columns (from 0)
VisitedNow == <<ix_1, MiddleSkip(ix_1) + ix_2, InnerSkip(ix_1, ix_2) + ix_3>>

\* main calls state_counts(hand_pairs)
StateCountsBegin ==
    /\ pc = "pairs_done"
    /\ intermediate_states' = U64Zero
    /\ final_states' = U64Zero
    /\ ix_1' = 0
    /\ pc' = "sc_outer"
    /\ UNCHANGED <<handsVars, pairsVars, internVars, stateVars, ix_2, ix_3, visited,
                   acc_overflow, total>>

\* the outer loop takes (ix_1, column_1)
ScOuter ==
    /\ pc = "sc_outer"
    /\ ix_1 < Len(hand_pairs)
    /\ ix_2' = 0
    /\ pc' = "sc_middle"
    /\ UNCHANGED <<handsVars, pairsVars, internVars, stateVars, intermediate_states,
                   final_states, ix_1, ix_3, visited, acc_overflow, total>>

\* the middle loop takes (ix_2, column_2)
ScMiddle ==
    /\ pc = "sc_middle"
    /\ ix_2 < Len(Skip(hand_pairs, MiddleSkip(ix_1)))
    /\ ix_3' = 0
    /\ pc' = "sc_inner"
    /\ UNCHANGED <<handsVars, pairsVars, internVars, stateVars, intermediate_states,
                   final_states, ix_1, ix_2, visited, acc_overflow, total>>

\* the inner loop takes column_3 and runs the body
ScBody ==
    /\ pc = "sc_inner"
    /\ ix_3 < Len(Skip(hand_pairs, InnerSkip(ix_1, ix_2)))
    /\ LET p1 == p1_full(Column1, Column2, Column3)
           p2 == p2_full(Column1, Column2, Column3)
           k == Classify(p1, p2)
       IN  /\ final_states' =
                IF k = "final" THEN U64Add(final_states, U64Of(1)) ELSE final_states
           /\ intermediate_states' =
                IF k = "intermediate" THEN U64Add(intermediate_states, U64Of(1))
                ELSE intermediate_states
           /\ acc_overflow' =
                \/ acc_overflow
                \/ k = "final" /\ U64AddOverflows(final_states, U64Of(1))
                \/ k = "intermediate" /\ U64AddOverflows(intermediate_states, U64Of(1))
    /\ visited' = Append(visited, VisitedNow)
    /\ ix_3' = ix_3 + 1
    /\ UNCHANGED <<pc, handsVars, pairsVars, internVars, stateVars, ix_1, ix_2, total>>

\* the inner iterator is exhausted: next (ix_2, column_2)
ScInnerEnd ==
    /\ pc = "sc_inner"
    /\ ix_3 >= Len(Skip(hand_pairs, InnerSkip(ix_1, ix_2)))
    /\ ix_2' = ix_2 + 1
    /\ pc' = "sc_middle"
    /\ UNCHANGED <<handsVars, pairsVars, internVars, stateVars, intermediate_states,
                   final_states, ix_1, ix_3, visited, acc_overflow, total>>

\* the middle iterator is exhausted: next (ix_1, column_1)
ScMiddleEnd ==
    /\ pc = "sc_middle"
    /\ ix_2 >= Len(Skip(hand_pairs, MiddleSkip(ix_1)))
    /\ ix_1' = ix_1 + 1
    /\ pc' = "sc_outer"
    /\ UNCHANGED <<handsVars, pairsVars, internVars, stateVars, intermediate_states,
                   final_states, ix_2, ix_3, visited, acc_overflow, total>>

\* the outer iterator is exhausted: return (intermediate_states, final_states)
ScReturn ==
    /\ pc = "sc_outer"
    /\ ix_1 >= Len(hand_pairs)
    /\ pc' = "sc_done"
    /\ UNCHANGED <<handsVars, pairsVars, internVars, stateVars, countVars>>

\* main: state_counts.0 + state_counts.1
MainTotal ==
    /\ pc = "sc_done"
    /\ total' = U64Add(intermediate_states, final_states)
    /\ acc_overflow' = (acc_overflow \/ U64AddOverflows(intermediate_states, final_states))
    /\ pc' = "main_done"
    /\ UNCHANGED <<handsVars, pairsVars, internVars, stateVars, intermediate_states,
                   final_states, ix_1, ix_2, ix_3, visited>>

NextCount ==
    \/ ScOuter
    \/ ScMiddle
    \/ ScBody
    \/ ScInnerEnd
    \/ ScMiddleEnd
    \/ ScReturn
    \/ MainTotal

(***************************************************************************)
(* The inputs of the literal loop: lists of at most MaxP hand pairs, each  *)
(* a pair hand_pairs(hands()) returns, one of each kind of fullness.       *)
(***************************************************************************)
SamplePairs ==
    { <<new(1, 1, 1), new(2, 2, 2)>>,
      <<new(1, 2, 3), new1(4)>>,
      <<empty, new(4, 5, 6)>>,
      <<new1(1), new2(2, 3)>> }

InputLists == UNION { [1..n -> SamplePairs] : n \in 0..MaxP }

InitCount ==
    /\ pc = "sc_outer"
    /\ hv = << >> /\ i1 = 0 /\ i2 = 0 /\ i3 = 0 /\ hands = << >>
    /\ pv = << >> /\ h1 = 0 /\ hand_pairs \in InputLists
    /\ ix_to_hand = EmptyMap /\ hand_to_ix = EmptyMap /\ ix = 0 /\ it = 0
    /\ ix_overflow = FALSE
    /\ args = <<0, 0, 0>> /\ state = None /\ panicked = FALSE
    /\ intermediate_states = U64Zero /\ final_states = U64Zero
    /\ ix_1 = 0 /\ ix_2 = 0 /\ ix_3 = 0 /\ visited = << >>
    /\ acc_overflow = FALSE /\ total = U64Zero

SpecCount == InitCount /\ [][NextCount]_vars

(***************************************************************************)
(* state_counts(hand_pairs), one turn of the outer loop at a time.         *)
(*                                                                         *)
(* For the list main passes (3067 pairs) the body runs more than 2^32      *)
(* times, so the two inner loops of one turn are taken in one step.  In    *)
(* the turn of ix_1 = n the inner loops visit the positions (j, k) with    *)
(* n <= j <= k < P, Tri(P - n) of them; p1_full holds for those whose      *)
(* three columns are all full for player A, Tri(SuffixA(n)) of them when   *)
(* column_1 is, none otherwise; likewise p2_full and both.                 *)
(* TurnSummaryMatchesLoop checks these sums against the loop as written.   *)
(* A step takes at most LoopStride turns, so that a run stays short.       *)
(***************************************************************************)
Tri(m) == (m * (m + 1)) \div 2

FullA(c) == is_full(c[1])

FullB(c) == is_full(c[2])

SuffixA(n) == Cardinality({k \in (n + 1)..Len(hand_pairs) : FullA(hand_pairs[k])})

SuffixB(n) == Cardinality({k \in (n + 1)..Len(hand_pairs) : FullB(hand_pairs[k])})

SuffixAB(n) ==
    Cardinality({k \in (n + 1)..Len(hand_pairs) :
                    FullA(hand_pairs[k]) /\ FullB(hand_pairs[k])})

TurnVisited(n) == Tri(Len(hand_pairs) - MiddleSkip(n))

TurnP1(n) == IF FullA(hand_pairs[n + 1]) THEN Tri(SuffixA(MiddleSkip(n))) ELSE 0

TurnP2(n) == IF FullB(hand_pairs[n + 1]) THEN Tri(SuffixB(MiddleSkip(n))) ELSE 0

TurnBoth(n) ==
    IF FullA(hand_pairs[n + 1]) /\ FullB(hand_pairs[n + 1])
    THEN Tri(SuffixAB(MiddleSkip(n))) ELSE 0

\* the body's final_states += 1 of one turn, from its three counts
FinalOf(p1, p2, both) == p1 + p2 - 2 * both

\* the body's intermediate_states += 1 of one turn, from its four counts
IntermediateOf(all, p1, p2, both) == all - p1 - p2 + both

TurnFinal(n) == FinalOf(TurnP1(n), TurnP2(n), TurnBoth(n))

TurnIntermediate(n) == IntermediateOf(TurnVisited(n), TurnP1(n), TurnP2(n), TurnBoth(n))

\* one turn of the outer loop: (ix_1, column_1) and both inner loops
AddTurn(r, all, p1, p2, both) ==
    [final_states |-> U64Add(r.final_states, U64Of(FinalOf(p1, p2, both))),
     intermediate_states |->
        U64Add(r.intermediate_states, U64Of(IntermediateOf(all, p1, p2, both))),
     acc_overflow |->
        \/ r.acc_overflow
        \/ U64AddOverflows(r.final_states, U64Of(FinalOf(p1, p2, both)))
        \/ U64AddOverflows(r.intermediate_states,
                            U64Of(IntermediateOf(all, p1, p2, both))),
     ix_1 |-> r.ix_1 + 1]

OuterTurn(r) ==
    AddTurn(r, TurnVisited(r.ix_1), TurnP1(r.ix_1), TurnP2(r.ix_1), TurnBoth(r.ix_1))

\* at most n turns of the outer loop, one after the other
RECURSIVE OuterTurns(_, _)
OuterTurns(r, n) ==
    IF n = 0 \/ r.ix_1 >= Len(hand_pairs) THEN r ELSE OuterTurns(OuterTurn(r), n - 1)

\* the next turns of the outer loop
ScOuterTurn ==
    /\ pc = "sc_outer"
    /\ ix_1 < Len(hand_pairs)
    /\ \E r \in {OuterTurns([final_states |-> final_states,
                               intermediate_states |-> intermediate_states,
                               acc_overflow |-> acc_overflow, ix_1 |-> ix_1],
                              LoopStride)} :
           /\ final_states' = r.final_states
           /\ intermediate_states' = r.intermediate_states
           /\ acc_overflow' = r.acc_overflow
           /\ ix_1' = r.ix_1
    /\ UNCHANGED <<pc, handsVars, pairsVars, internVars, stateVars, ix_2, ix_3,
                   visited, total>>

NextMain ==
    \/ StateCountsBegin
    \/ ScOuterTurn
    \/ ScReturn
    \/ MainTotal

SpecMain == Init /\ [][NextHands \/ NextPairs \/ NextMain]_vars

RECURSIVE SumTurnFinal(_)
SumTurnFinal(n) == IF n = 0 THEN 0 ELSE SumTurnFinal(n - 1) + TurnFinal(n - 1)

RECURSIVE SumTurnIntermediate(_)
SumTurnIntermediate(n) ==
    IF n = 0 THEN 0 ELSE SumTurnIntermediate(n - 1) + TurnIntermediate(n - 1)

\* Under SpecCount: between two turns of the outer loop as written, the
\* accumulators hold the sums of the turns taken in one step.
TurnSummaryMatchesLoop ==
    pc \in {"sc_outer", "sc_done"} =>
        /\ U64Small(final_states) = SumTurnFinal(ix_1)
        /\ U64Small(intermediate_states) = SumTurnIntermediate(ix_1)

(***************************************************************************)
(* What the claims are stated with                                         *)
(***************************************************************************)
Range(s) == {s[k] : k \in DOMAIN s}

NoDuplicates(s) == Cardinality(Range(s)) = Len(s)

Slots(h) == <<die_1(h), die_2(h), die_3(h)>>

\* the number of assigned slots
Assigned(h) == Cardinality({k \in 1..3 : Slots(h)[k] # None})

\* a later slot is filled only if all earlier slots are
NotSparse(h) ==
    /\ die_2(h) # None => die_1(h) # None
    /\ die_3(h) # None => die_2(h) # None

NonDecreasing(h) ==
    \A j \in 1..3, k \in 1..3 :
        (j < k /\ Slots(h)[j] # None /\ Slots(h)[k] # None) => Slots(h)[j][1] <= Slots(h)[k][1]

\* every valid hand over the six faces
ValidHands ==
    {h \in OptionDie \X OptionDie \X OptionDie :
        NotSparse(h) /\ NonDecreasing(h)}

HandsReturned == pc \notin {"hands", "hands_outer", "hands_middle", "hands_inner"}

PairsReturned == HandsReturned /\ pc # "hand_pairs"

\* some die value is in both hands
SharesDie(a, b) == \E d \in Die : has(a, d) /\ has(b, d)

\* C1: hands() returns every valid hand exactly once and nothing else: while it
\* runs the vector holds valid hands only (not sparse, non-decreasing), none
\* twice; is_full() holds iff len() = 3 and len() is the number of filled slots;
\* the returned list is the set of valid hands, 84 of them: 1 + 6 + 21 + 56.
C1_HandsExact ==
    /\ NoDuplicates(hv)
    /\ NoDuplicates(hands)
    /\ Range(hv) \cup Range(hands) \subseteq ValidHands
    /\ \A h \in Range(hv) \cup Range(hands) :
         (is_full(h) <=> len(h) = 3) /\ len(h) = Assigned(h)
    /\ HandsReturned =>
         /\ Range(hands) = ValidHands
         /\ Len(hands) = 84
         /\ Cardinality({h \in Range(hands) : len(h) = 0}) = 1
         /\ Cardinality({h \in Range(hands) : len(h) = 1}) = 6
         /\ Cardinality({h \in Range(hands) : len(h) = 2}) = 21
         /\ Cardinality({h \in Range(hands) : len(h) = 3}) = 56

C1_Witness ==
    /\ HandsReturned
    /\ Len(hands) = 84
    /\ hands[1] = empty
    /\ hands[84] = new(6, 6, 6)

\* C2: hand_pairs(hands()) returns exactly the ordered pairs of generated hands
\* that share no die value, each once; (empty, empty) and every pair with an
\* empty hand are among them, and (h, h) only for the empty hand, overlaps(h, h)
\* being false iff h is empty.
C2_PairsExact ==
    /\ NoDuplicates(pv)
    /\ \A p \in Range(pv) : ~SharesDie(p[1], p[2])
    /\ PairsReturned =>
         /\ NoDuplicates(hand_pairs)
         /\ Range(hand_pairs) =
              {p \in Range(hands) \X Range(hands) : ~SharesDie(p[1], p[2])}
         /\ <<empty, empty>> \in Range(hand_pairs)
         /\ \A h \in Range(hands) :
              /\ <<empty, h>> \in Range(hand_pairs)
              /\ <<h, empty>> \in Range(hand_pairs)
              /\ <<h, h>> \in Range(hand_pairs) <=> h = empty
              /\ ~overlaps(h, h) <=> h = empty

C2_Witness ==
    /\ pc = "pairs_done"
    /\ Len(hand_pairs) = 3067
    /\ <<new(1, 1, 1), new(2, 2, 2)>> \in Range(hand_pairs)

\* the indices of the triples the loop of state_counts should visit
OrderedTriples(P) ==
    {t \in (0..(P - 1)) \X (0..(P - 1)) \X (0..(P - 1)) : t[1] <= t[2] /\ t[2] <= t[3]}

ScReturned == pc \in {"sc_done", "main_done"}

\* C3: for every input list of P hand pairs the body of the triple loop runs for
\* index triples with i1 <= i2 <= i3 < P only, for none twice, and on return it
\* has run for every one of them: C(P + 2, 3) triples.
C3_TriplesOnce ==
    /\ NoDuplicates(visited)
    /\ Range(visited) \subseteq OrderedTriples(Len(hand_pairs))
    /\ ScReturned =>
         /\ Range(visited) = OrderedTriples(Len(hand_pairs))
         /\ Len(visited) =
              (Len(hand_pairs) * (Len(hand_pairs) + 1) * (Len(hand_pairs) + 2)) \div 6

C3_Witness ==
    /\ pc = "sc_done"
    /\ Len(hand_pairs) = 3
    /\ Len(visited) = 10
    /\ <<0, 1, 2>> \in Range(visited) /\ <<1, 1, 1>> \in Range(visited)

\* player A (s = 1) or B (s = 2) holds three dice in all three columns of t
AllFull(t, s) == \A k \in 1..3 : len(hand_pairs[t[k] + 1][s]) = 3

VisitedBothFull == {k \in 1..Len(visited) : AllFull(visited[k], 1) /\ AllFull(visited[k], 2)}

VisitedOneFull == {k \in 1..Len(visited) : AllFull(visited[k], 1) # AllFull(visited[k], 2)}

VisitedNoneFull ==
    {k \in 1..Len(visited) : ~AllFull(visited[k], 1) /\ ~AllFull(visited[k], 2)}

\* C4: at every point of state_counts and on return, the final counter is the
\* number of visited triples with exactly one player full in all three columns,
\* the intermediate counter the number with neither, and a triple with both
\* full is in neither; so intermediate + final = visited - both-full.
C4_Classification ==
    /\ ~acc_overflow
    /\ U64Small(final_states) = Cardinality(VisitedOneFull)
    /\ U64Small(intermediate_states) = Cardinality(VisitedNoneFull)
    /\ U64Small(intermediate_states) + U64Small(final_states)
         = Len(visited) - Cardinality(VisitedBothFull)

C4_Witness ==
    /\ pc = "sc_done"
    /\ VisitedBothFull # {}
    /\ VisitedOneFull # {}
    /\ VisitedNoneFull # {}

\* 2^32 - 1
U32Max == <<Limb - 1, Limb - 1, 0, 0>>

\* the exact sum of two u64 values is the wrapped one
SumExact(a, b, c) == c = U64Add(a, b) /\ ~U64AddOverflows(a, b)

\* C5, as stated: over the six faces no accumulator and no sum leaves the u64
\* range, the counted triples are more than 2^32 - 1, and a 32-bit accumulator
\* would overflow: one of the two accumulators is above 2^32 - 1.
C5_Original ==
    /\ ~acc_overflow
    /\ pc = "main_done" =>
         /\ SumExact(intermediate_states, final_states, total)
         /\ ~U64Le(total, U32Max)
         /\ (~U64Le(intermediate_states, U32Max) \/ ~U64Le(final_states, U32Max))

\* C5, amended: over the six faces no accumulator and no sum leaves the u64
\* range, and the counted triples, intermediate + final, are more than
\* 2^32 - 1, so that a 32-bit sum would overflow; each of the two accumulators
\* by itself stays within 2^32 - 1.
C5_Amended ==
    /\ ~acc_overflow
    /\ U64Le(intermediate_states, U32Max)
    /\ U64Le(final_states, U32Max)
    /\ pc = "main_done" =>
         /\ SumExact(intermediate_states, final_states, total)
         /\ ~U64Le(total, U32Max)

\* intermediate = 3083032242, final = 1557728432, total = 4640760674
C5_Witness ==
    /\ pc = "main_done"
    /\ Len(hand_pairs) = 3067
    /\ intermediate_states = <<22194, 47043, 0, 0>>
    /\ final_states = <<3248, 23769, 0, 0>>
    /\ total = <<25442, 5276, 1, 0>>

\* the values the assigned slots hold
AssignedValues(h) == {Slots(h)[k][1] : k \in {j \in 1..3 : Slots(h)[j] # None}}

PairwiseDistinct(h) ==
    \A j \in 1..3, k \in 1..3 :
        (j < k /\ Slots(h)[j] # None /\ Slots(h)[k] # None) => Slots(h)[j] # Slots(h)[k]

\* C6, as stated: for every generated hand h, has(d) holds for exactly len(h)
\* die values, and the assigned dice are non-decreasing.
C6_Original ==
    HandsReturned =>
        \A h \in Range(hands) :
            /\ Cardinality({d \in Die : has(h, d)}) = len(h)
            /\ NonDecreasing(h)

\* C6, amended: for every generated hand h, has(d) holds for exactly the values
\* its assigned dice hold, at most len(h) of them and len(h) exactly when the
\* assigned dice are pairwise distinct, and the assigned dice are non-decreasing.
C6_Amended ==
    \A h \in Range(hv) \cup Range(hands) :
        /\ {d \in Die : has(h, d)} = AssignedValues(h)
        /\ Cardinality({d \in Die : has(h, d)}) <= len(h)
        /\ Cardinality({d \in Die : has(h, d)}) = len(h) <=> PairwiseDistinct(h)
        /\ NonDecreasing(h)

C6_Witness ==
    /\ HandsReturned
    /\ new2(1, 1) \in Range(hands)
    /\ new(2, 5, 5) \in Range(hands)
    /\ new(1, 2, 3) \in Range(hands)

\* the positions (1,2), (2,3), (1,3) whose slots are both assigned and equal
BonusPairs(h) ==
    {q \in {<<1, 2>>, <<2, 3>>, <<1, 3>>} :
        Slots(h)[q[1]] # None /\ Slots(h)[q[2]] # None /\ Slots(h)[q[1]] = Slots(h)[q[2]]}

SlotValue(h, k) == IF Slots(h)[k] = None THEN 0 ELSE Slots(h)[k][1]

SquareOf(h, q) == SlotValue(h, q[1]) * SlotValue(h, q[1])

\* the sum of the assigned values plus v * v for each bonus pair
ScoreOf(h) ==
    SlotValue(h, 1) + SlotValue(h, 2) + SlotValue(h, 3)
        + (IF <<1, 2>> \in BonusPairs(h) THEN SquareOf(h, <<1, 2>>) ELSE 0)
        + (IF <<2, 3>> \in BonusPairs(h) THEN SquareOf(h, <<2, 3>>) ELSE 0)
        + (IF <<1, 3>> \in BonusPairs(h) THEN SquareOf(h, <<1, 3>>) ELSE 0)

\* C7: for every generated hand, score() is the sum of the assigned values
\* plus v * v for each of the pairs (1,2), (2,3), (1,3) assigned and equal,
\* no u8 operation wraps, three equal dice v score 3v + 3v*v, and (2,2,2)
\* scores 18, (1,2,6) scores 9, (3,3,5) scores 20.
C7_Score ==
    /\ \A h \in Range(hv) \cup Range(hands) :
         /\ score(h) = ScoreOf(h)
         /\ ~score_wraps(h)
         /\ (len(h) = 3 /\ die_1(h) = die_2(h) /\ die_2(h) = die_3(h)) =>
              score(h) = 3 * val_1(h) + 3 * val_1(h) * val_1(h)
    /\ new(2, 2, 2) \in Range(hands) => score(new(2, 2, 2)) = 18
    /\ new(1, 2, 6) \in Range(hands) => score(new(1, 2, 6)) = 9
    /\ new(3, 3, 5) \in Range(hands) => score(new(3, 3, 5)) = 20

C7_Witness ==
    /\ HandsReturned
    /\ {new(2, 2, 2), new(1, 2, 6), new(3, 3, 5), new(6, 6, 6), new1(4), empty}
         \subseteq Range(hands)
    /\ score(new(6, 6, 6)) = 126

\* C8: the returned pair set is closed under swapping the two players, the
\* swapped pair shares no die either, and so no lookup of State::reverse on a
\* state of valid indices fails.
C8_SwapClosed ==
    /\ pc = "pairs_done" =>
         \A p \in Range(hand_pairs) :
            /\ ~SharesDie(p[2], p[1])
            /\ Swapped(p) \in Range(hand_pairs)
    /\ pc = "interned" =>
         \A i \in DOMAIN ix_to_hand :
            /\ ~get_by_index_fails(i)
            /\ ~get_by_hand_fails(Swapped(get_by_index(i)))
    /\ ~panicked

C8_Witness ==
    /\ pc = "interned"
    /\ ~panicked
    /\ is_some(state)
    /\ state[1] # new_by_index(args[1], args[2], args[3])
    /\ args[1] # args[2]

\* C9: after HandPairs::new() the two tables are mutually inverse bijections
\* between 0..P-1 and the set of hand pairs, both have P entries, and the u16
\* index never overflows.
C9_TablesInverse ==
    /\ ~ix_overflow
    /\ pc = "interned" =>
         LET P == Len(hand_pairs) IN
         /\ P < 2 ^ 16
         /\ ix = P
         /\ DOMAIN ix_to_hand = 0..(P - 1)
         /\ DOMAIN hand_to_ix = Range(hand_pairs)
         /\ Cardinality(DOMAIN ix_to_hand) = P
         /\ Cardinality(DOMAIN hand_to_ix) = P
         /\ \A i \in 0..(P - 1) : get_by_hand(get_by_index(i)) = i
         /\ \A p \in Range(hand_pairs) : get_by_index(get_by_hand(p)) = p

C9_Witness ==
    /\ pc = "interned"
    /\ Len(hand_pairs) = 3067
    /\ ix = 3067
    /\ get_by_index(0) = <<empty, empty>>
    /\ get_by_index(3066) = <<new(6, 6, 6), new(5, 5, 5)>>

\* the six orderings of a triple
Orderings(a) ==
    { <<a[1], a[2], a[3]>>, <<a[1], a[3], a[2]>>, <<a[2], a[1], a[3]>>,
      <<a[2], a[3], a[1]>>, <<a[3], a[1], a[2]>>, <<a[3], a[2], a[1]>> }

Occurrences(t, x) == Cardinality({k \in 1..3 : t[k] = x})

\* C10: new_by_index returns the same State for each of the six orderings of
\* (a, b, c), the State holds the multiset {a, b, c}, and its columns are in
\* non-decreasing order (as are those of every State built).
C10_Canonical ==
    /\ LET s == new_by_index(args[1], args[2], args[3])
           cols == <<s.column_1, s.column_2, s.column_3>>
       IN  /\ \A o \in Orderings(args) : new_by_index(o[1], o[2], o[3]) = s
           /\ \A x \in Range(args) \cup Range(cols) :
                Occurrences(cols, x) = Occurrences(args, x)
           /\ s.column_1 <= s.column_2 /\ s.column_2 <= s.column_3
    /\ is_some(state) =>
         state[1].column_1 <= state[1].column_2 /\ state[1].column_2 <= state[1].column_3

C10_Witness ==
    /\ is_some(state)
    /\ args[1] > args[2] /\ args[2] > args[3]
    /\ state[1] = [column_1 |-> args[3], column_2 |-> args[2], column_3 |-> args[1]]

SpecPairs == Init /\ [][NextHands \/ NextPairs]_vars

====
